---- MODULE Spec2Model ----
(***************************************************************************)
(* Trajectory analysis of VisulizarRotasCorreto.py: great-circle distance, *)
(* the kinematic pass, low-movement classification and run-length grouping *)
(* of detectar_paradas, and the route segmenter of criar_mapa_rotas.       *)
(*                                                                         *)
(* Units.  Distances are integers in units of 0.1 km (so the default       *)
(* max_jump_km = 0.1 is 1 and the segmenter's 100.0 km is 1000), speeds in *)
(* 0.1 km/h, times in minutes, angles in degrees.  Coordinates are taken   *)
(* from multiples of 60 degrees, where the haversine terms are exact       *)
(* rationals, and timestamps from multiples of 30 minutes, where           *)
(* dist / (dt/60) is an exact integer.  Python indices are kept 0-based;   *)
(* sequence position k+1 holds Python element k.                           *)
(***************************************************************************)
EXTENDS Integers, Sequences, FiniteSets, TLC

(***************************************************************************)
(* Python / numpy values: a float is a finite number, nan or inf; an       *)
(* object-dtype cell may also hold None; a timestamp is a number of        *)
(* minutes or NaT.                                                         *)
(***************************************************************************)
Num(v) == [tag |-> "num", val |-> v]
NaN == [tag |-> "nan", val |-> 0]
Inf == [tag |-> "inf", val |-> 0]
PyNone == [tag |-> "none", val |-> 0]
NaT == [tag |-> "nat", val |-> 0]

\* pd.isna(x): True for nan, None and NaT, False for finite numbers and inf
isna(x) == x.tag \in {"nan", "none", "nat"}

\* float(x) raises TypeError on None and returns every float unchanged
FloatRaises(x) == x.tag = "none"

\* x - y on floats: nan propagates, inf - inf is nan
FSub(x, y) ==
    IF x.tag = "nan" \/ y.tag = "nan" THEN NaN
    ELSE IF x.tag = "inf" /\ y.tag = "inf" THEN NaN
    ELSE IF x.tag = "inf" \/ y.tag = "inf" THEN Inf
    ELSE Num(x.val - y.val)

\* x <= y on floats: every comparison with nan is False
FLeq(x, y) ==
    IF x.tag = "nan" \/ y.tag = "nan" THEN FALSE
    ELSE IF x.tag = "inf" THEN y.tag = "inf"
    ELSE IF y.tag = "inf" THEN TRUE
    ELSE x.val <= y.val

Abs(x) == IF x < 0 THEN -x ELSE x

(***************************************************************************)
(* haversine_km.  With d a multiple of 60 degrees, 4*sin(d/2)^2 and        *)
(* 2*cos(d) are integers, so 16*hav is an integer; 2*asin(sqrt(hav)) is    *)
(* tabulated in units of 1e-4 rad.  math.sin and math.cos raise ValueError *)
(* on an infinite argument and return nan on nan.                          *)
(***************************************************************************)
R == 6371

\* 4 * math.sin(math.radians(d)/2)**2
SinHalfSq4(d) ==
    CASE Abs(d) = 0 -> 0
      [] Abs(d) = 60 -> 1
      [] Abs(d) = 120 -> 3
      [] Abs(d) = 180 -> 4

\* 2 * math.cos(math.radians(d))
Cos2(d) ==
    CASE Abs(d) = 0 -> 2
      [] Abs(d) = 60 -> 1
      [] Abs(d) = 120 -> -1
      [] Abs(d) = 180 -> -2

\* 2 * math.asin(math.sqrt(h16/16)) in units of 1e-4 rad
TwoAsinSqrt(h16) ==
    CASE h16 = 0 -> 0
      [] h16 = 1 -> 5054
      [] h16 = 2 -> 7227
      [] h16 = 3 -> 8957
      [] h16 = 4 -> 10472
      [] h16 = 5 -> 11864
      [] h16 = 6 -> 13181
      [] h16 = 7 -> 14455
      [] h16 = 8 -> 15708
      [] h16 = 9 -> 16961
      [] h16 = 10 -> 18235
      [] h16 = 11 -> 19552
      [] h16 = 12 -> 20944
      [] h16 = 13 -> 22459
      [] h16 = 14 -> 24189
      [] h16 = 15 -> 26362
      [] h16 = 16 -> 31416

\* Mutant of haversine_km: dphi is taken from lat1 alone.
haversine_km_dphi1(a, b) ==
    LET lat1 == a[1]
        lon1 == a[2]
        lat2 == b[1]
        lon2 == b[2]
        dphi == lat1
        dlambda == FSub(lon2, lon1)
    IN  IF "inf" \in {dphi.tag, lat1.tag, lat2.tag, dlambda.tag}
        THEN [exc |-> "ValueError", val |-> NaN]
        ELSE IF "nan" \in {dphi.tag, lat1.tag, lat2.tag, dlambda.tag}
        THEN [exc |-> "", val |-> NaN]
        ELSE LET hav16 == 4 * SinHalfSq4(dphi.val)
                          + Cos2(lat1.val) * Cos2(lat2.val) * SinHalfSq4(dlambda.val)
             IN  [exc |-> "", val |-> Num((R * TwoAsinSqrt(hav16)) \div 1000)]

haversine_km(a, b) ==
    LET lat1 == a[1]
        lon1 == a[2]
        lat2 == b[1]
        lon2 == b[2]
        dphi == FSub(lat2, lat1)
        dlambda == FSub(lon2, lon1)
    IN  IF "inf" \in {dphi.tag, lat1.tag, lat2.tag, dlambda.tag}
        THEN [exc |-> "ValueError", val |-> NaN]
        ELSE IF "nan" \in {dphi.tag, lat1.tag, lat2.tag, dlambda.tag}
        THEN [exc |-> "", val |-> NaN]
        ELSE LET hav16 == 4 * SinHalfSq4(dphi.val)
                          + Cos2(lat1.val) * Cos2(lat2.val) * SinHalfSq4(dlambda.val)
             IN  [exc |-> "", val |-> Num((R * TwoAsinSqrt(hav16)) \div 1000)]

(***************************************************************************)
(* detectar_paradas (module level), lines 117-193.                         *)
(***************************************************************************)

\* dist / (dt_min/60.0) for dt_min > 0
SpeedOf(dist, dt_min) ==
    IF dist.tag = "num" THEN Num((dist.val * 60) \div dt_min.val) ELSE dist

\* (t2 - t1).total_seconds() / 60.0, or None when either timestamp is NaT
DeltaMin(t1, t2) ==
    IF isna(t1) \/ isna(t2) THEN PyNone ELSE Num(t2.val - t1.val)

\* Mutant of SpeedKmh: without a positive delta the distance is taken as
\* the speed.
SpeedKmh_dist(dist, dt_min) ==
    IF dt_min.tag = "num" /\ dt_min.val # 0 /\ dt_min.val > 0
    THEN SpeedOf(dist, dt_min)
    ELSE dist

\* Mutant of SpeedKmh: only the truthiness of dt_min is tested.
SpeedKmh_truthy(dist, dt_min) ==
    IF dt_min.tag = "num" /\ dt_min.val # 0
    THEN SpeedOf(dist, dt_min)
    ELSE Num(0)

\* `if dt_min and dt_min > 0`: None and 0.0 are falsy
SpeedKmh(dist, dt_min) ==
    IF dt_min.tag = "num" /\ dt_min.val # 0 /\ dt_min.val > 0
    THEN SpeedOf(dist, dt_min)
    ELSE Num(0)

\* One iteration of the loop of lines 132-154 for Python index i.
Edge(lats, lons, times, i) ==
    IF \E x \in {lats[i+1], lons[i+1], lats[i+2], lons[i+2]} : FloatRaises(x)
    THEN [exc |-> "", dt |-> PyNone, dist |-> Num(0), speed |-> Num(0)]
    ELSE LET h == haversine_km(<<lats[i+1], lons[i+1]>>, <<lats[i+2], lons[i+2]>>)
             dt_min == DeltaMin(times[i+1], times[i+2])
         IN  IF h.exc # ""
             THEN [exc |-> h.exc, dt |-> PyNone, dist |-> NaN, speed |-> NaN]
             ELSE [exc |-> "", dt |-> dt_min, dist |-> h.val,
                   speed |-> SpeedKmh(h.val, dt_min)]

\* The kinematic pass, lines 129-154: the three per-edge lists, or the
\* exception of the first edge that raises.
KinematicPass(lats, lons, times) ==
    LET n == Len(lats)
        edges == [k \in 1..(n-1) |-> Edge(lats, lons, times, k-1)]
        bad == {k \in 1..(n-1) : edges[k].exc # ""}
    IN  IF bad # {}
        THEN [exc |-> edges[CHOOSE k \in bad : \A j \in bad : k <= j].exc,
              deltas_min |-> <<>>, dists_km |-> <<>>, speeds_kmh |-> <<>>]
        ELSE [exc |-> "",
              deltas_min |-> [k \in 1..(n-1) |-> edges[k].dt],
              dists_km |-> [k \in 1..(n-1) |-> edges[k].dist],
              speeds_kmh |-> [k \in 1..(n-1) |-> edges[k].speed]]

\* Mutant of LowFlag: both clauses are required.
LowFlag_both(dt, sp, dist, max_jump_km, min_stop_minutes, speed_threshold_kmh) ==
    /\ /\ dt.tag # "none"
       /\ dt.val >= min_stop_minutes
       /\ FLeq(dist, Num(max_jump_km))
    /\ FLeq(sp, Num(speed_threshold_kmh))

\* The condition of line 161.
LowFlag(dt, sp, dist, max_jump_km, min_stop_minutes, speed_threshold_kmh) ==
    \/ /\ dt.tag # "none"
       /\ dt.val >= min_stop_minutes
       /\ FLeq(dist, Num(max_jump_km))
    \/ FLeq(sp, Num(speed_threshold_kmh))

\* Lines 156-164.
LowFlags(kin, max_jump_km, min_stop_minutes, speed_threshold_kmh) ==
    [k \in 1..Len(kin.speeds_kmh) |->
        LowFlag(kin.deltas_min[k], kin.speeds_kmh[k], kin.dists_km[k],
                max_jump_km, min_stop_minutes, speed_threshold_kmh)]

\* Mutant of RunEnd: the run is never extended past its first edge.
RunEnd_first(low_flags, i) == i

\* The inner while of lines 173-174: the last edge index of the run at i.
RECURSIVE RunEnd(_, _)
RunEnd(low_flags, i) ==
    IF i + 1 < Len(low_flags) /\ low_flags[i+2]
    THEN RunEnd(low_flags, i + 1)
    ELSE i

\* [col[k] for k in range(idx_start, idx_end+1) if not pd.isna(col[k])]
ValidIn(col, idx_start, idx_end) ==
    SelectSeq(SubSeq(col, idx_start + 1, idx_end + 1), LAMBDA x : ~isna(x))

RECURSIVE FSum(_)
FSum(xs) ==
    IF xs = <<>> THEN Num(0)
    ELSE LET rest == FSum(Tail(xs))
         IN  IF Head(xs).tag = "inf" \/ rest.tag = "inf" THEN Inf
             ELSE Num(Head(xs).val + rest.val)

\* sum(xs)/len(xs) for a non-empty list; exact on the coordinate grid
Mean(xs) ==
    LET s == FSum(xs)
    IN  IF s.tag = "inf" THEN Inf ELSE Num(s.val \div Len(xs))

\* Mutant of TimeOrNone: NaT is passed on unchanged.
TimeOrNone_raw(t) == t

\* Lines 185-186: the timestamp, or None when it is NaT.
TimeOrNone(t) == IF ~isna(t) THEN t ELSE PyNone

\* Mutant of DurationMin: the duration is always the default minimum stop.
DurationMin_default(start_time, end_time) ==
    IF start_time.tag # "none" /\ end_time.tag # "none"
    THEN Num(30)
    ELSE PyNone

\* Lines 187-189.
DurationMin(start_time, end_time) ==
    IF start_time.tag # "none" /\ end_time.tag # "none"
    THEN Num(end_time.val - start_time.val)
    ELSE PyNone

\* Mutant of MakeStop: the stop ends at the last edge index, not at the
\* fix after it.
MakeStop_edgeend(lats, lons, times, start, i) ==
    LET idx_start == start
        idx_end == i
        lats_seg == ValidIn(lats, idx_start, idx_end)
        lons_seg == ValidIn(lons, idx_start, idx_end)
        start_time == TimeOrNone(times[idx_start + 1])
        end_time == TimeOrNone(times[idx_end + 1])
    IN  IF Len(lats_seg) = 0 THEN [exc |-> "", emit |-> FALSE, stop |-> <<>>]
        ELSE IF Len(lons_seg) = 0
        THEN [exc |-> "ZeroDivisionError", emit |-> FALSE, stop |-> <<>>]
        ELSE [exc |-> "", emit |-> TRUE,
              stop |-> [start_idx |-> idx_start, end_idx |-> idx_end,
                        start_time |-> start_time, end_time |-> end_time,
                        duration_min |-> DurationMin(start_time, end_time),
                        centroid |-> <<Mean(lats_seg), Mean(lons_seg)>>]]

\* Lines 175-190 for the run of edges start..i: the stop, the discard of
\* line 181, or the ZeroDivisionError of line 184 when lons_seg is empty.
MakeStop(lats, lons, times, start, i) ==
    LET idx_start == start
        idx_end == i + 1
        lats_seg == ValidIn(lats, idx_start, idx_end)
        lons_seg == ValidIn(lons, idx_start, idx_end)
        start_time == TimeOrNone(times[idx_start + 1])
        end_time == TimeOrNone(times[idx_end + 1])
    IN  IF Len(lats_seg) = 0 THEN [exc |-> "", emit |-> FALSE, stop |-> <<>>]
        ELSE IF Len(lons_seg) = 0
        THEN [exc |-> "ZeroDivisionError", emit |-> FALSE, stop |-> <<>>]
        ELSE [exc |-> "", emit |-> TRUE,
              stop |-> [start_idx |-> idx_start, end_idx |-> idx_end,
                        start_time |-> start_time, end_time |-> end_time,
                        duration_min |-> DurationMin(start_time, end_time),
                        centroid |-> <<Mean(lats_seg), Mean(lons_seg)>>]]

\* The grouping loop of lines 166-191 from cursor i with the stops so far.
RECURSIVE Group(_, _, _, _, _, _)
Group(lats, lons, times, low_flags, i, stops) ==
    IF ~(i < Len(low_flags)) THEN [exc |-> "", stops |-> stops]
    ELSE IF ~low_flags[i+1] THEN Group(lats, lons, times, low_flags, i + 1, stops)
    ELSE LET end_i == RunEnd(low_flags, i)
             m == MakeStop(lats, lons, times, i, end_i)
         IN  IF m.exc # "" THEN [exc |-> m.exc, stops |-> <<>>]
             ELSE Group(lats, lons, times, low_flags, end_i + 1,
                        IF m.emit THEN Append(stops, m.stop) ELSE stops)

\* A cell of a datetime column of strings that does not parse as a date; as
\* a string it sorts after the ISO stamps of its column.
BadStamp == [tag |-> "str", val |-> 1000000]

\* pd.to_datetime(column), lines 127 and 258, raises on a string that is not
\* a date.
ToDatetimeRaises(times) == \E k \in 1..Len(times) : times[k].tag = "str"

Column(df_pts, c) == [k \in 1..Len(df_pts) |-> df_pts[k][c]]

EmptyCall ==
    [exc |-> "", stops |-> <<>>, deltas_min |-> <<>>, dists_km |-> <<>>,
     speeds_kmh |-> <<>>, low_flags |-> <<>>]

detectar_paradas(df_pts, max_jump_km, min_stop_minutes, speed_threshold_kmh) ==
    IF Len(df_pts) < 2 THEN EmptyCall
    ELSE LET lats == Column(df_pts, "latitude")
             lons == Column(df_pts, "longitude")
             times == Column(df_pts, "datetime")
             kin == KinematicPass(lats, lons, times)
             low_flags == LowFlags(kin, max_jump_km, min_stop_minutes,
                                   speed_threshold_kmh)
             g == Group(lats, lons, times, low_flags, 0, <<>>)
         IN  IF ToDatetimeRaises(times)
             THEN [EmptyCall EXCEPT !.exc = "ParserError"]
             ELSE IF kin.exc # "" THEN [EmptyCall EXCEPT !.exc = kin.exc]
             ELSE [exc |-> g.exc, stops |-> g.stops,
                   deltas_min |-> kin.deltas_min, dists_km |-> kin.dists_km,
                   speeds_kmh |-> kin.speeds_kmh, low_flags |-> low_flags]

(***************************************************************************)
(* criar_mapa_rotas: the nested detectar_paradas (lines 247-322), which    *)
(* converts the coordinates outside any try, and the per-vessel body       *)
(* (lines 329-442): sort, dropna, segmentation and stop detection.         *)
(***************************************************************************)

\* One iteration of the loop of lines 263-280: float() is not guarded.
nested_Edge(lats, lons, times, i) ==
    IF \E x \in {lats[i+1], lons[i+1], lats[i+2], lons[i+2]} : FloatRaises(x)
    THEN [exc |-> "TypeError", dt |-> PyNone, dist |-> NaN, speed |-> NaN]
    ELSE Edge(lats, lons, times, i)

nested_KinematicPass(lats, lons, times) ==
    LET n == Len(lats)
        edges == [k \in 1..(n-1) |-> nested_Edge(lats, lons, times, k-1)]
        bad == {k \in 1..(n-1) : edges[k].exc # ""}
    IN  IF bad # {}
        THEN [exc |-> edges[CHOOSE k \in bad : \A j \in bad : k <= j].exc,
              deltas_min |-> <<>>, dists_km |-> <<>>, speeds_kmh |-> <<>>]
        ELSE [exc |-> "",
              deltas_min |-> [k \in 1..(n-1) |-> edges[k].dt],
              dists_km |-> [k \in 1..(n-1) |-> edges[k].dist],
              speeds_kmh |-> [k \in 1..(n-1) |-> edges[k].speed]]

nested_detectar_paradas(df_pts, max_jump_km, min_stop_minutes, speed_threshold_kmh) ==
    IF Len(df_pts) < 2 THEN EmptyCall
    ELSE LET lats == Column(df_pts, "latitude")
             lons == Column(df_pts, "longitude")
             times == Column(df_pts, "datetime")
             kin == nested_KinematicPass(lats, lons, times)
             low_flags == LowFlags(kin, max_jump_km, min_stop_minutes,
                                   speed_threshold_kmh)
             g == Group(lats, lons, times, low_flags, 0, <<>>)
         IN  IF ToDatetimeRaises(times)
             THEN [EmptyCall EXCEPT !.exc = "ParserError"]
             ELSE IF kin.exc # "" THEN [EmptyCall EXCEPT !.exc = kin.exc]
             ELSE [exc |-> g.exc, stops |-> g.stops,
                   deltas_min |-> kin.deltas_min, dists_km |-> kin.dists_km,
                   speeds_kmh |-> kin.speeds_kmh, low_flags |-> low_flags]

\* Defaults of the signature, lines 117 and 247 (0.1 km, 30 min, 2.0 km/h).
DEFAULT_MAX_JUMP_KM == 1
DEFAULT_MIN_STOP_MINUTES == 30
DEFAULT_SPEED_THRESHOLD_KMH == 20

\* max_jump_km of line 362 (100.0 km).
SEG_MAX_JUMP_KM == 1000

\* Stable insertion of row into a list sorted ascending by datetime.
RECURSIVE InsertByTime(_, _)
InsertByTime(sorted, row) ==
    IF sorted = <<>> THEN <<row>>
    ELSE IF row.datetime.val < Head(sorted).datetime.val
    THEN <<row>> \o sorted
    ELSE <<Head(sorted)>> \o InsertByTime(Tail(sorted), row)

RECURSIVE SortTimed(_)
SortTimed(rows) ==
    IF rows = <<>> THEN <<>>
    ELSE InsertByTime(SortTimed(SubSeq(rows, 1, Len(rows) - 1)), rows[Len(rows)])

\* df.sort_values('datetime'): ascending, rows with NaT last in their
\* original order, equal timestamps in their original order.
sort_values(df) ==
    SortTimed(SelectSeq(df, LAMBDA r : ~isna(r.datetime)))
        \o SelectSeq(df, LAMBDA r : isna(r.datetime))

\* df.dropna(subset=['latitude', 'longitude'])
dropna(df) ==
    SelectSeq(df, LAMBDA r : ~isna(r.latitude) /\ ~isna(r.longitude))

\* The loop of lines 365-373 over the pairs from position k on, with the
\* open segment and the segments closed so far.
RECURSIVE SegLoop(_, _, _, _, _)
SegLoop(pontos, k, segment, segments, max_jump_km) ==
    IF k >= Len(pontos) THEN [exc |-> "", segment |-> segment, segments |-> segments]
    ELSE LET h == haversine_km(pontos[k], pontos[k+1])
         IN  IF h.exc # "" THEN [exc |-> h.exc, segment |-> <<>>, segments |-> <<>>]
             ELSE IF FLeq(h.val, Num(max_jump_km))
             THEN SegLoop(pontos, k + 1, Append(segment, pontos[k+1]), segments,
                          max_jump_km)
             ELSE SegLoop(pontos, k + 1, <<pontos[k+1]>>,
                          IF Len(segment) >= 2 THEN Append(segments, segment)
                          ELSE segments,
                          max_jump_km)

\* Mutant of Segmentar: the last open segment is emitted whatever its length.
Segmentar_keeplast(pontos, max_jump_km) ==
    LET r == SegLoop(pontos, 1, <<pontos[1]>>, <<>>, max_jump_km)
    IN  IF r.exc # "" THEN [exc |-> r.exc, segments |-> <<>>]
        ELSE [exc |-> "", segments |-> Append(r.segments, r.segment)]

\* Lines 362-375 for a non-empty list of points.
Segmentar(pontos, max_jump_km) ==
    LET r == SegLoop(pontos, 1, <<pontos[1]>>, <<>>, max_jump_km)
    IN  IF r.exc # "" THEN [exc |-> r.exc, segments |-> <<>>]
        ELSE [exc |-> "",
              segments |-> IF Len(r.segment) >= 2 THEN Append(r.segments, r.segment)
                           ELSE r.segments]

\* Lines 376-442 once the segmenter and detectar_paradas have ended: an
\* exception of the segmenter leaves criar_mapa_rotas, one of
\* detectar_paradas is replaced by an empty list of stops (lines 419-422).
VesselDrawn(pontos, seg, call) ==
    IF seg.exc # ""
    THEN [exc |-> seg.exc, pontos |-> pontos, segments |-> <<>>, stops |-> <<>>,
          stops_exc |-> ""]
    ELSE [exc |-> "", pontos |-> pontos, segments |-> seg.segments,
          stops |-> IF call.exc # "" THEN <<>> ELSE call.stops,
          stops_exc |-> call.exc]

\* pontos of line 357.
Pontos(df_valido) ==
    [k \in 1..Len(df_valido) |-> <<df_valido[k].latitude, df_valido[k].longitude>>]

\* Lines 344-442 for the sorted valid rows of a vessel.
VesselValid(df_valido) ==
    IF Len(df_valido) = 0
    THEN [exc |-> "", pontos |-> <<>>, segments |-> <<>>, stops |-> <<>>,
          stops_exc |-> ""]
    ELSE VesselDrawn(Pontos(df_valido),
                     Segmentar(Pontos(df_valido), SEG_MAX_JUMP_KM),
                     nested_detectar_paradas(df_valido, DEFAULT_MAX_JUMP_KM,
                         DEFAULT_MIN_STOP_MINUTES, DEFAULT_SPEED_THRESHOLD_KMH))

\* The body of the loop of line 329 for one vessel: what it draws (segments,
\* stops) or the exception that leaves criar_mapa_rotas.
VesselBody(df) == VesselValid(sort_values(dropna(sort_values(df))))

\* pd.to_datetime(column, errors='coerce') of line 566: a string that is not
\* a date becomes NaT.
to_datetime_coerce(df) ==
    [k \in 1..Len(df) |->
        IF df[k].datetime.tag = "str" THEN [df[k] EXCEPT !.datetime = NaT]
        ELSE df[k]]

\* sum([s['duration_min'] or 0 for s in stops]) of line 624.
RECURSIVE total_stop_minutes(_)
total_stop_minutes(stops) ==
    IF stops = <<>> THEN 0
    ELSE (IF Head(stops).duration_min.tag = "num"
          THEN Head(stops).duration_min.val ELSE 0)
         + total_stop_minutes(Tail(stops))

\* Lines 622-660 once detectar_paradas has ended: the page with its stops,
\* or the exception that detectar_paradas raised.
PorNavioPage(features, call) ==
    IF call.exc # ""
    THEN [exc |-> call.exc, saved |-> FALSE, features |-> features,
          stops |-> <<>>, total_stop_minutes |-> 0]
    ELSE [exc |-> "", saved |-> TRUE, features |-> features,
          stops |-> call.stops,
          total_stop_minutes |-> total_stop_minutes(call.stops)]

\* Lines 561-660 for the sorted valid rows of a vessel; features holds the
\* rows that have a timestamp.
PorNavioValid(df_valido) ==
    IF Len(df_valido) = 0
    THEN [exc |-> "", saved |-> FALSE, features |-> 0, stops |-> <<>>,
          total_stop_minutes |-> 0]
    ELSE PorNavioPage(Len(SelectSeq(df_valido, LAMBDA r : ~isna(r.datetime))),
                      detectar_paradas(df_valido, DEFAULT_MAX_JUMP_KM,
                          DEFAULT_MIN_STOP_MINUTES, DEFAULT_SPEED_THRESHOLD_KMH))

\* The try block of lines 559-660 for one vessel of criar_mapas_por_navio:
\* the page it saves, nothing when the vessel has no fix with coordinates,
\* or the exception its except clause prints.
PorNavioBody(df) == PorNavioValid(sort_values(to_datetime_coerce(dropna(df))))

(***************************************************************************)
(* The state machine: one call of detectar_paradas on a DataFrame with     *)
(* given thresholds, or one pass of the per-vessel body of                 *)
(* criar_mapa_rotas (which calls its detectar_paradas with the defaults).  *)
(***************************************************************************)
VARIABLES df, thr, pc, exc, stops, deltas_min, dists_km, speeds_kmh,
          low_flags, pontos, segments,
          dados_ais, navio, feature_groups, out_files, erros,
          first_run, hav, ws, grp

\* The locals of one call of detectar_paradas or of one vessel body.
call_vars == <<df, thr, stops, deltas_min, dists_km, speeds_kmh, low_flags,
               pontos, segments>>

\* The dict of vessels, the loop cursor and what the loops of
\* criar_mapa_rotas and criar_mapas_por_navio leave behind.
fleet_vars == <<dados_ais, navio, feature_groups, out_files, erros>>

vars == <<df, thr, pc, exc, stops, deltas_min, dists_km, speeds_kmh,
          low_flags, pontos, segments,
          dados_ais, navio, feature_groups, out_files, erros,
          first_run, hav, ws, grp>>

\* Longest trajectory over the numeric coordinates.
MaxFixes == 4
\* Longest trajectory that may also hold None and inf cells.
MaxObjFixes == 2

Times == {NaT, Num(0), Num(30)}

\* Cells of a float64 column: two grid points, a row with both coordinates
\* nan and a row whose longitude alone is nan.
FloatCoords == {<<Num(0), Num(0)>>, <<Num(60), Num(60)>>, <<NaN, NaN>>}
\* A longitude-only gap, an object-dtype None and an infinite latitude.
OtherCoords == {<<Num(60), NaN>>, <<PyNone, Num(0)>>, <<Inf, Num(0)>>}

Fix(c, t) == [latitude |-> c[1], longitude |-> c[2], datetime |-> t]

FloatFixes == {Fix(c, t) : c \in FloatCoords, t \in Times}
AllFixes == {Fix(c, t) : c \in FloatCoords \cup OtherCoords, t \in Times}

SeqsUpTo(S, n) == UNION {[1..k -> S] : k \in 0..n}

Trajectories == SeqsUpTo(FloatFixes, MaxFixes) \cup SeqsUpTo(AllFixes, MaxObjFixes)

Thresholds(j, m, s) ==
    [max_jump_km |-> j, min_stop_minutes |-> m, speed_threshold_kmh |-> s]

Defaults ==
    Thresholds(DEFAULT_MAX_JUMP_KM, DEFAULT_MIN_STOP_MINUTES,
               DEFAULT_SPEED_THRESHOLD_KMH)

\* The distance between the two grid points.
GridJump == haversine_km(<<Num(0), Num(0)>>, <<Num(60), Num(60)>>).val.val

\* The defaults; both inclusive boundaries at zero; a jump threshold equal
\* to the grid distance; a speed threshold above every speed; a negative
\* speed threshold.
ThresholdSettings ==
    {Defaults, Thresholds(0, 30, 0), Thresholds(GridJump, 30, 20),
     Thresholds(1, 60, 4 * GridJump), Thresholds(0, 30, -1)}

\* Mutant of FreshList: the list of the previous call is kept.
FreshList_kept(previous) == previous

\* stops = [] of lines 121 and 250 and segments = [] of line 363: each call
\* starts its result from a new empty list, whatever the previous call left.
FreshList(previous) == <<>>

\* No first run has been recorded.
NoRun == [done |-> FALSE, exc |-> "", stops |-> <<>>, segments |-> <<>>]

\* No distance has been measured.
NoMeasure == [done |-> FALSE]
\* No connection is being served.
NoSocket == [pc |-> "off"]
\* No grouping loop is being stepped through.
NoLoop == [pc |-> "off"]

Init ==
    /\ df \in Trajectories
    /\ \/ pc = "detectar_paradas" /\ thr \in ThresholdSettings
       \/ pc = "criar_mapa_rotas" /\ thr = Defaults
    /\ exc = ""
    /\ stops = <<>>
    /\ deltas_min = <<>>
    /\ dists_km = <<>>
    /\ speeds_kmh = <<>>
    /\ low_flags = <<>>
    /\ pontos = <<>>
    /\ segments = <<>>
    /\ dados_ais = <<>>
    /\ navio = 0
    /\ feature_groups = <<>>
    /\ out_files = <<>>
    /\ erros = <<>>
    /\ first_run = NoRun
    /\ hav = NoMeasure
    /\ ws = NoSocket
    /\ grp = NoLoop

\* detectar_paradas(df, **thr) returns its stops or raises.
CallDetectarParadas ==
    /\ pc = "detectar_paradas"
    /\ \E call \in {detectar_paradas(df, thr.max_jump_km, thr.min_stop_minutes,
                                     thr.speed_threshold_kmh)} :
           /\ exc' = call.exc
           /\ stops' = FreshList(stops) \o call.stops
           /\ deltas_min' = call.deltas_min
           /\ dists_km' = call.dists_km
           /\ speeds_kmh' = call.speeds_kmh
           /\ low_flags' = call.low_flags
           /\ pc' = IF call.exc = "" THEN "returned" ELSE "raised"
    /\ UNCHANGED <<df, thr, pontos, segments>>
    /\ UNCHANGED <<fleet_vars, first_run, hav, ws, grp>>

\* One vessel of the loop of criar_mapa_rotas.
CriarMapaRotasNavio ==
    /\ pc = "criar_mapa_rotas"
    /\ \E body \in {VesselBody(df)} :
           /\ exc' = body.exc
           /\ pontos' = body.pontos
           /\ segments' = FreshList(segments) \o body.segments
           /\ stops' = FreshList(stops) \o body.stops
           /\ pc' = IF body.exc = "" THEN "drawn" ELSE "aborted"
    /\ UNCHANGED <<df, thr, deltas_min, dists_km, speeds_kmh, low_flags>>
    /\ UNCHANGED <<fleet_vars, first_run, hav, ws, grp>>

Next == CallDetectarParadas \/ CriarMapaRotasNavio

Spec == Init /\ [][Next]_vars

(***************************************************************************)
(* The per-vessel loops: criar_mapa_rotas(dados_ais) and                   *)
(* criar_mapas_por_navio(dados_ais), one vessel of the dict per step.  The *)
(* map centre, the colours and the markers are rendering and are left out. *)
(***************************************************************************)
\* Most vessels of a run.
MaxVessels == 2
\* Most fixes of a vessel of a run.
MaxVesselFixes == 2

\* A grid point, a row without coordinates and a row with an infinite
\* latitude, all with the same timestamp.
FleetFixes ==
    {Fix(<<Num(0), Num(0)>>, Num(0)), Fix(<<NaN, NaN>>, Num(0)),
     Fix(<<Inf, Num(0)>>, Num(0))}

\* A vessel whose datetime column holds a string that is not a date.
BadStampFrame ==
    <<Fix(<<Num(0), Num(0)>>, Num(0)), Fix(<<Num(0), Num(0)>>, BadStamp)>>

FleetFrames == SeqsUpTo(FleetFixes, MaxVesselFixes) \cup {BadStampFrame}

Fleets == SeqsUpTo(FleetFrames, MaxVessels)

InitFleet ==
    /\ dados_ais \in Fleets
    /\ pc \in {"criar_mapa_rotas:loop", "criar_mapas_por_navio:loop"}
    /\ navio = 1
    /\ feature_groups = <<>>
    /\ out_files = <<>>
    /\ erros = <<>>
    /\ exc = ""
    /\ df = <<>>
    /\ thr = Defaults
    /\ stops = <<>>
    /\ deltas_min = <<>>
    /\ dists_km = <<>>
    /\ speeds_kmh = <<>>
    /\ low_flags = <<>>
    /\ pontos = <<>>
    /\ segments = <<>>
    /\ first_run = NoRun
    /\ hav = NoMeasure
    /\ ws = NoSocket
    /\ grp = NoLoop

\* Lines 199-201: criar_mapa_rotas returns at once on an empty dict.
RotasSemDados ==
    /\ pc = "criar_mapa_rotas:loop"
    /\ dados_ais = <<>>
    /\ pc' = "criar_mapa_rotas:sem_dados"
    /\ UNCHANGED <<exc, call_vars, fleet_vars, first_run, hav, ws, grp>>

\* One iteration of the loop of line 329.  A vessel without valid fixes is
\* skipped (line 344); an exception of the body leaves criar_mapa_rotas
\* before mapa.save; otherwise the vessel's segments and stops are added to
\* the map.  stops_exc records the exception that lines 421-422 swallowed.
RotasNavio ==
    /\ pc = "criar_mapa_rotas:loop"
    /\ dados_ais # <<>>
    /\ navio <= Len(dados_ais)
    /\ \E body \in {VesselBody(dados_ais[navio])} :
           IF body.exc # ""
           THEN /\ pc' = "criar_mapa_rotas:raised"
                /\ exc' = body.exc
                /\ UNCHANGED <<navio, feature_groups>>
           ELSE /\ navio' = navio + 1
                /\ feature_groups' =
                      IF body.pontos = <<>> THEN feature_groups
                      ELSE Append(feature_groups,
                                  [navio |-> navio, segments |-> body.segments,
                                   stops |-> body.stops,
                                   stops_exc |-> body.stops_exc])
                /\ UNCHANGED <<pc, exc>>
    /\ UNCHANGED <<dados_ais, out_files, erros, call_vars, first_run, hav, ws, grp>>

\* Lines 444-507: after the last vessel the map is saved.
RotasSalvar ==
    /\ pc = "criar_mapa_rotas:loop"
    /\ dados_ais # <<>>
    /\ navio > Len(dados_ais)
    /\ pc' = "criar_mapa_rotas:saved"
    /\ UNCHANGED <<exc, call_vars, fleet_vars, first_run, hav, ws, grp>>

\* One iteration of the loop of line 558: the page of the vessel is saved
\* and appended to out_files, or nothing is (no valid fix), or the except
\* clause of line 661 prints the error; the loop goes on in every case.
PorNavioNavio ==
    /\ pc = "criar_mapas_por_navio:loop"
    /\ navio <= Len(dados_ais)
    /\ \E body \in {PorNavioBody(dados_ais[navio])} :
           /\ out_files' =
                 IF body.saved
                 THEN Append(out_files,
                             [navio |-> navio, features |-> body.features,
                              stops |-> body.stops,
                              total_stop_minutes |-> body.total_stop_minutes])
                 ELSE out_files
           /\ erros' = IF body.exc # ""
                       THEN Append(erros, [navio |-> navio, exc |-> body.exc])
                       ELSE erros
    /\ navio' = navio + 1
    /\ UNCHANGED <<pc, exc, dados_ais, feature_groups, call_vars, first_run, hav, ws, grp>>

\* Line 665: return out_files.
PorNavioRetorno ==
    /\ pc = "criar_mapas_por_navio:loop"
    /\ navio > Len(dados_ais)
    /\ pc' = "criar_mapas_por_navio:returned"
    /\ UNCHANGED <<exc, call_vars, fleet_vars, first_run, hav, ws, grp>>

NextFleet ==
    \/ RotasSemDados
    \/ RotasNavio
    \/ RotasSalvar
    \/ PorNavioNavio
    \/ PorNavioRetorno

SpecFleet == InitFleet /\ [][NextFleet]_vars

(***************************************************************************)
(* Properties.  Edge and fix indices are Python's (0-based).               *)
(***************************************************************************)
NFixes == Len(df)
NEdges == IF NFixes >= 2 THEN NFixes - 1 ELSE 0

\* detectar_paradas returned its list of stops.
Returned == pc = "returned"
\* The call ended, by return or by exception.
CallEnded == pc \in {"returned", "raised"}
\* The call ended and its kinematic pass ran to the end.
KinematicDone == CallEnded /\ exc # "ValueError"

StopIdx == 1..Len(stops)

\* Edges s..e are a maximal run of flagged edges.
IsRun(s, e) ==
    /\ 0 <= s /\ s <= e /\ e < Len(low_flags)
    /\ \A k \in s..e : low_flags[k+1]
    /\ s = 0 \/ ~low_flags[s]
    /\ e = Len(low_flags) - 1 \/ ~low_flags[e+2]

Runs == {r \in (0..(NEdges-1)) \X (0..(NEdges-1)) : IsRun(r[1], r[2])}

\* C1: the returned stops are sorted ascending by start_idx, no two of them
\* share a fix, and every stop has end_idx > start_idx.
C1_SortedNonOverlapping ==
    Returned =>
        /\ \A i \in StopIdx : stops[i].end_idx > stops[i].start_idx
        /\ \A i, j \in StopIdx :
              i < j => /\ stops[i].start_idx < stops[j].start_idx
                       /\ stops[i].end_idx < stops[j].start_idx

C1_Witness == Returned /\ Len(stops) >= 2

\* Clause (a): delta known, delta >= min_stop_minutes, distance <= max_jump_km.
ClauseA(k) ==
    /\ deltas_min[k].tag = "num"
    /\ deltas_min[k].val >= thr.min_stop_minutes
    /\ dists_km[k].tag = "num"
    /\ dists_km[k].val <= thr.max_jump_km

\* Clause (b): speed <= speed_threshold_kmh.
ClauseB(k) ==
    /\ speeds_kmh[k].tag = "num"
    /\ speeds_kmh[k].val <= thr.speed_threshold_kmh

\* C2: an edge is flagged low-movement iff clause (a) or clause (b) holds,
\* with all three comparisons inclusive.
C2_FlagIffEitherClause ==
    KinematicDone =>
        /\ Len(low_flags) = Len(speeds_kmh)
        /\ \A k \in 1..Len(low_flags) : low_flags[k] <=> (ClauseA(k) \/ ClauseB(k))

\* One edge flagged by (a) alone, at both of its boundaries, and another
\* flagged by (b) alone.
C2_Witness ==
    /\ KinematicDone
    /\ \E k \in 1..Len(low_flags) :
          /\ low_flags[k] /\ ClauseA(k) /\ ~ClauseB(k)
          /\ deltas_min[k].val = thr.min_stop_minutes
          /\ dists_km[k].val = thr.max_jump_km
    /\ \E k \in 1..Len(low_flags) : low_flags[k] /\ ClauseB(k) /\ ~ClauseA(k)

\* Some fix of positions a..b has a latitude that is present.
HasLatitude(a, b) == \E k \in a..b : ~isna(df[k+1].latitude)

\* C3: the stops are, in order, the maximal runs of flagged edges (those
\* with a latitude to average): the run of edges start..end gives the stop
\* with start_idx = start and end_idx = end + 1.
C3_StopsAreMaximalRuns ==
    Returned =>
        /\ \A i \in StopIdx : IsRun(stops[i].start_idx, stops[i].end_idx - 1)
        /\ \A r \in Runs :
              HasLatitude(r[1], r[2] + 1) =>
                  \E i \in StopIdx : /\ stops[i].start_idx = r[1]
                                     /\ stops[i].end_idx = r[2] + 1
        /\ \A i, j \in StopIdx :
              stops[i].start_idx = stops[j].start_idx => i = j

\* A run of two edges next to an unflagged edge gives a stop of 3 fixes.
C3_Witness ==
    /\ Returned
    /\ \E k \in 1..Len(low_flags) : ~low_flags[k]
    /\ \E i \in StopIdx : stops[i].end_idx = stops[i].start_idx + 2

\* Some of the four coordinates of the pair of edge k (1-based) is a cell
\* that float() rejects.
ConversionFails(k) ==
    \E x \in {df[k].latitude, df[k].longitude, df[k+1].latitude, df[k+1].longitude} :
        x.tag = "none"

\* (t2 - t1) in minutes when both timestamps are known, null otherwise.
ExpectedDelta(k) ==
    IF df[k].datetime.tag = "num" /\ df[k+1].datetime.tag = "num"
    THEN Num(df[k+1].datetime.val - df[k].datetime.val)
    ELSE PyNone

\* distance / (delta/60) when delta is known and > 0, 0.0 otherwise.
ExpectedSpeed(k) ==
    IF deltas_min[k].tag = "num" /\ deltas_min[k].val > 0
    THEN IF dists_km[k].tag = "num"
         THEN Num((dists_km[k].val * 60) \div deltas_min[k].val)
         ELSE NaN
    ELSE Num(0)

\* C4 as claimed: for every consecutive pair, delta_minutes is t2 - t1 when
\* both timestamps are known and null otherwise, and speed_kmh is
\* distance / (delta/60) when delta is known and > 0, 0.0 otherwise.
C4_DeltaAndSpeed ==
    KinematicDone =>
        \A k \in 1..NEdges :
            /\ deltas_min[k] = ExpectedDelta(k)
            /\ speeds_kmh[k] = ExpectedSpeed(k)

\* C4 as amended: the same for every pair whose coordinates convert to
\* float; a pair with a failed conversion has delta null (also when both
\* timestamps are known), distance 0.0 and speed 0.0.
C4_DeltaAndSpeedAmended ==
    KinematicDone =>
        \A k \in 1..NEdges :
            /\ ~ConversionFails(k) => deltas_min[k] = ExpectedDelta(k)
            /\ ConversionFails(k) =>
                  deltas_min[k] = PyNone /\ dists_km[k] = Num(0)
            /\ speeds_kmh[k] = ExpectedSpeed(k)

\* An edge with a positive delta and a positive speed next to one whose
\* delta is unknown and one whose delta is not positive.
C4_Witness ==
    /\ KinematicDone
    /\ \E k \in 1..NEdges : deltas_min[k].tag = "num" /\ deltas_min[k].val > 0
                            /\ speeds_kmh[k].tag = "num" /\ speeds_kmh[k].val > 0
    /\ \E k \in 1..NEdges : deltas_min[k] = PyNone /\ speeds_kmh[k] = Num(0)
    /\ \E k \in 1..NEdges : deltas_min[k].tag = "num" /\ deltas_min[k].val <= 0
                            /\ speeds_kmh[k] = Num(0)

\* C5: every call produces the four per-edge lists with max(0, len - 1)
\* entries each, entry i holding the distance of the pair (Fix[i], Fix[i+1])
\* (0.0 when its conversion fails).
C5_OneEdgePerPair ==
    CallEnded =>
        /\ Len(dists_km) = NEdges
        /\ Len(deltas_min) = NEdges
        /\ Len(speeds_kmh) = NEdges
        /\ Len(low_flags) = NEdges
        /\ \A k \in 1..NEdges :
              dists_km[k] =
                  IF ConversionFails(k) THEN Num(0)
                  ELSE haversine_km(<<df[k].latitude, df[k].longitude>>,
                                    <<df[k+1].latitude, df[k+1].longitude>>).val

\* Some of the four coordinates of the pair of edge k is not a finite number.
InvalidCoordinate(k) ==
    \E x \in {df[k].latitude, df[k].longitude, df[k+1].latitude, df[k+1].longitude} :
        x.tag # "num"

\* C6: a pair with a NaN or invalid coordinate gives an edge of distance 0.0
\* and speed 0.0, and the pass is never aborted.
C6_DegenerateEdgeNeverAborts ==
    CallEnded =>
        /\ exc # "ValueError"
        /\ Len(dists_km) = NEdges
        /\ \A k \in 1..Len(dists_km) :
              InvalidCoordinate(k) =>
                  dists_km[k] = Num(0) /\ speeds_kmh[k] = Num(0)

\* The rows of fix positions a..b whose latitude and longitude are present.
ValidRows(a, b) ==
    SelectSeq(SubSeq(df, a + 1, b + 1),
              LAMBDA r : ~isna(r.latitude) /\ ~isna(r.longitude))

\* C7: the centroid of every stop is the mean latitude and the mean
\* longitude of the fixes of its span that have both coordinates.
C7_CentroidOverValidFixes ==
    Returned =>
        \A i \in StopIdx :
            LET rows == ValidRows(stops[i].start_idx, stops[i].end_idx)
            IN  /\ Len(rows) > 0
                /\ stops[i].centroid = <<Mean(Column(rows, "latitude")),
                                         Mean(Column(rows, "longitude"))>>

\* C8: a run none of whose fixes has valid coordinates gives no stop and no
\* exception, and every other run still gives its stop.
C8_InvalidRunDiscarded ==
    KinematicDone =>
        /\ Returned
        /\ \A r \in Runs :
              (Len(ValidRows(r[1], r[2] + 1)) > 0)
                  <=> (\E i \in StopIdx : stops[i].start_idx = r[1])

\* C9: start_time and end_time are the timestamps of the fixes at start_idx
\* and end_idx, null when unknown; duration_min is their difference in
\* minutes when both are known and null otherwise.
C9_StopTimes ==
    Returned =>
        \A i \in StopIdx :
            LET t1 == df[stops[i].start_idx + 1].datetime
                t2 == df[stops[i].end_idx + 1].datetime
            IN  /\ stops[i].start_time = IF t1.tag = "num" THEN t1 ELSE PyNone
                /\ stops[i].end_time = IF t2.tag = "num" THEN t2 ELSE PyNone
                /\ stops[i].duration_min =
                      IF t1.tag = "num" /\ t2.tag = "num"
                      THEN Num(t2.val - t1.val)
                      ELSE PyNone

\* A stop of positive duration that is not the first of its trajectory.
C9_Witness ==
    /\ Returned
    /\ \E i \in StopIdx : /\ stops[i].start_idx > 0
                          /\ stops[i].duration_min.tag = "num"
                          /\ stops[i].duration_min.val > 0

\* The vessel body drew its segments.
Drawn == pc = "drawn"

\* The points at positions k and k+1 are farther apart than the segmenter's
\* max_jump_km.
Jump(k) ==
    LET d == haversine_km(pontos[k], pontos[k+1]).val
    IN  ~(d.tag = "num" /\ d.val <= SEG_MAX_JUMP_KM)

RECURSIVE Concat(_)
Concat(ss) == IF ss = <<>> THEN <<>> ELSE Head(ss) \o Concat(Tail(ss))

\* The input points at the positions of idx, in input order, from k on.
RECURSIVE PointsAt(_, _)
PointsAt(k, idx) ==
    IF k > Len(pontos) THEN <<>>
    ELSE (IF k \in idx THEN <<pontos[k]>> ELSE <<>>) \o PointsAt(k + 1, idx)

\* The point at position k has a jump on both sides.
Stranded(k) == k > 1 /\ k < Len(pontos) /\ Jump(k - 1) /\ Jump(k)

\* The point at position k has a jump or an end of the input on both sides.
Isolated(k) ==
    /\ k = 1 \/ Jump(k - 1)
    /\ k = Len(pontos) \/ Jump(k)

\* C11 as stated: the segments, concatenated, are the input points in input
\* order without the single points that lie between two jumps, and without
\* any other loss.
C11_ConcatMinusStranded ==
    Drawn =>
        Concat(segments) = PointsAt(1, {k \in 1..Len(pontos) : ~Stranded(k)})

\* C11 amended: the segments, concatenated, are the input points in input
\* order, each once, without the isolated single points, where the start and
\* the end of the input isolate a point as a jump does.
C11_ConcatMinusIsolated ==
    Drawn =>
        Concat(segments) = PointsAt(1, {k \in 1..Len(pontos) : ~Isolated(k)})

\* A segment, then a point stranded between two jumps, then a lone last
\* point.
C11_Witness ==
    /\ Drawn
    /\ Len(segments) >= 1
    /\ \E k \in 1..Len(pontos) : Stranded(k)
    /\ Isolated(Len(pontos))

(***************************************************************************)
(* haversine_km(a, b) on its own: the distance is measured both ways and   *)
(* from a to itself.                                                       *)
(***************************************************************************)
\* Latitudes and longitudes of the grid, a nan and an infinite latitude.
GridPoints ==
    {<<Num(lat), Num(lon)>> : lat \in {-60, 0, 60}, lon \in {-60, 0, 60, 120}}
        \cup {<<NaN, Num(0)>>, <<Inf, Num(0)>>}

InitHaversine ==
    /\ hav \in {[done |-> FALSE, a |-> a, b |-> b] : a, b \in GridPoints}
    /\ ws = NoSocket
    /\ grp = NoLoop
    /\ pc = "haversine_km"
    /\ exc = ""
    /\ df = <<>>
    /\ thr = Defaults
    /\ stops = <<>>
    /\ deltas_min = <<>>
    /\ dists_km = <<>>
    /\ speeds_kmh = <<>>
    /\ low_flags = <<>>
    /\ pontos = <<>>
    /\ segments = <<>>
    /\ dados_ais = <<>>
    /\ navio = 0
    /\ feature_groups = <<>>
    /\ out_files = <<>>
    /\ erros = <<>>
    /\ first_run = NoRun

\* haversine_km(a, b), haversine_km(b, a) and haversine_km(a, a).
MeasureDistance ==
    /\ pc = "haversine_km"
    /\ hav' = [done |-> TRUE, a |-> hav.a, b |-> hav.b,
               ab |-> haversine_km(hav.a, hav.b),
               ba |-> haversine_km(hav.b, hav.a),
               aa |-> haversine_km(hav.a, hav.a)]
    /\ pc' = "measured"
    /\ UNCHANGED <<exc, call_vars, fleet_vars, first_run, ws, grp>>

NextHaversine == MeasureDistance

SpecHaversine == InitHaversine /\ [][NextHaversine]_vars

(***************************************************************************)
(* detectar_paradas on a vessel that does not move: the same grid point at *)
(* timestamps a fixed interval apart.                                      *)
(***************************************************************************)
\* Minutes between two fixes of a vessel that does not move.
Intervals == {10, 30, 60}

\* n fixes at point c, the first at minute 0 and one every d minutes.
StationaryTrajectory(c, n, d) == [k \in 1..n |-> Fix(c, Num((k - 1) * d))]

StationaryTrajectories ==
    {StationaryTrajectory(c, n, d) :
        c \in {<<Num(0), Num(0)>>, <<Num(60), Num(60)>>},
        n \in 2..MaxFixes, d \in Intervals}

\* min_stop_minutes = 5 and max_jump_km = 0.1 with the default speed
\* threshold.
ShortStopThresholds == Thresholds(1, 5, DEFAULT_SPEED_THRESHOLD_KMH)

InitStationary ==
    /\ df \in StationaryTrajectories
    /\ pc = "detectar_paradas"
    /\ thr \in ThresholdSettings \cup {ShortStopThresholds}
    /\ exc = ""
    /\ stops = <<>>
    /\ deltas_min = <<>>
    /\ dists_km = <<>>
    /\ speeds_kmh = <<>>
    /\ low_flags = <<>>
    /\ pontos = <<>>
    /\ segments = <<>>
    /\ dados_ais = <<>>
    /\ navio = 0
    /\ feature_groups = <<>>
    /\ out_files = <<>>
    /\ erros = <<>>
    /\ first_run = NoRun
    /\ hav = NoMeasure
    /\ ws = NoSocket
    /\ grp = NoLoop

NextStationary == CallDetectarParadas

SpecStationary == InitStationary /\ [][NextStationary]_vars

(***************************************************************************)
(* The same call made a second time on the same DataFrame and thresholds.  *)
(* Neither function assigns to its argument (sort_values and dropna return *)
(* new frames, lines 337 and 342) nor to a global, so the second call      *)
(* finds the df and thr of the first, and the lists the first call filled. *)
(***************************************************************************)
InitRerun == Init /\ Len(df) <= MaxObjFixes

FirstRun == [done |-> TRUE, exc |-> exc, stops |-> stops, segments |-> segments]

\* The caller keeps the outcome of the first call and calls again.
CallAgain ==
    /\ pc \in {"returned", "raised", "drawn", "aborted"}
    /\ ~first_run.done
    /\ first_run' = FirstRun
    /\ pc' = IF pc \in {"returned", "raised"} THEN "detectar_paradas"
             ELSE "criar_mapa_rotas"
    /\ UNCHANGED <<exc, call_vars, fleet_vars, hav, ws, grp>>

NextRerun ==
    \/ CallDetectarParadas
    \/ CriarMapaRotasNavio
    \/ CallAgain

SpecRerun == InitRerun /\ [][NextRerun]_vars

(***************************************************************************)
(* hullguard_realtime_server.handler: the receive loop of one connection.  *)
(* The peer sends text messages and may close the connection at any time;  *)
(* messages that arrived before the close are still handed to the loop.    *)
(* The image pipeline is reduced to whether it yields metrics or raises.   *)
(***************************************************************************)
\* Most messages the peer sends on a connection.
MaxMessages == 3

\* Text that is not JSON, a JSON list, objects without 'frame' and with an
\* empty 'frame', a frame that is not an image, and a JPEG frame.
Messages ==
    {"not_json", "json_list", "no_frame", "empty_frame", "not_image", "image"}

\* The model of load_model (lines 36-54): None when the file is missing.
Models == {"unet", "none"}

ErrorReply(text) == [kind |-> "error", text |-> text, keys |-> {"error"}]

\* The resp of lines 100-108 (with a model) and of line 114 (fallback).
MetricsReply(model) ==
    [kind |-> "metrics", text |-> "",
     keys |-> IF model = "unet"
              THEN {"igi", "coverage", "confidence", "mask", "cracas",
                    "cracas_per_cm2", "fouling_cm2"}
              ELSE {"igi", "coverage", "confidence"}]

\* Lines 67-79 without the 'continue' of line 71: the 'no frame' reply is
\* followed by the failure of b64decode(None).
Replies_nocontinue(msg, model) ==
    IF msg = "not_json" THEN <<ErrorReply("JSONDecodeError")>>
    ELSE IF msg = "json_list" THEN <<ErrorReply("AttributeError")>>
    ELSE IF msg = "no_frame"
    THEN <<ErrorReply("no frame"), ErrorReply("TypeError")>>
    ELSE IF msg = "empty_frame"
    THEN <<ErrorReply("no frame"), ErrorReply("UnidentifiedImageError")>>
    ELSE IF msg = "not_image" THEN <<ErrorReply("UnidentifiedImageError")>>
    ELSE <<MetricsReply(model)>>

\* The body of the try of lines 67-116 for one message: the replies it
\* passes to websocket.send.  json.loads raises on text that is not JSON,
\* data.get on a list; a missing or empty frame gives 'no frame' and
\* continue; Image.open raises on bytes that are no image; an image gives
\* resp.
Replies(msg, model) ==
    IF msg = "not_json" THEN <<ErrorReply("JSONDecodeError")>>
    ELSE IF msg = "json_list" THEN <<ErrorReply("AttributeError")>>
    ELSE IF msg \in {"no_frame", "empty_frame"} THEN <<ErrorReply("no frame")>>
    ELSE IF msg = "not_image" THEN <<ErrorReply("UnidentifiedImageError")>>
    ELSE <<MetricsReply(model)>>

\* websocket.send on a closed connection raises ConnectionClosed; the
\* except clause of line 118 then sends the error, which raises again and
\* is passed over (lines 121-124): nothing reaches the peer.
Sent(open, to, out) ==
    IF open THEN [k \in 1..Len(out) |-> [to |-> to, reply |-> out[k]]]
    ELSE <<>>

InitWebsocket ==
    /\ ws \in {[pc |-> "recv", open |-> TRUE, model |-> m, inbox |-> q,
                handled |-> <<>>, replies |-> <<>>] :
                   m \in Models, q \in SeqsUpTo(Messages, MaxMessages)}
    /\ pc = "handler"
    /\ exc = ""
    /\ df = <<>>
    /\ thr = Defaults
    /\ stops = <<>>
    /\ deltas_min = <<>>
    /\ dists_km = <<>>
    /\ speeds_kmh = <<>>
    /\ low_flags = <<>>
    /\ pontos = <<>>
    /\ segments = <<>>
    /\ dados_ais = <<>>
    /\ navio = 0
    /\ feature_groups = <<>>
    /\ out_files = <<>>
    /\ erros = <<>>
    /\ first_run = NoRun
    /\ hav = NoMeasure
    /\ grp = NoLoop

not_ws_vars == <<pc, exc, call_vars, fleet_vars, first_run, hav, grp>>

\* Line 66: async for hands the next message to the body.
WsReceive ==
    /\ ws.pc = "recv"
    /\ ws.inbox # <<>>
    /\ ws' = [ws EXCEPT !.pc = "handle"]
    /\ UNCHANGED not_ws_vars

\* Lines 67-124: the body of the loop for the message at hand.
WsHandle ==
    /\ ws.pc = "handle"
    /\ ws' = [ws EXCEPT
                !.pc = "recv",
                !.inbox = Tail(ws.inbox),
                !.handled = Append(ws.handled,
                                   [msg |-> Head(ws.inbox), open |-> ws.open]),
                !.replies = ws.replies \o
                            Sent(ws.open, Len(ws.handled) + 1,
                                 Replies(Head(ws.inbox), ws.model))]
    /\ UNCHANGED not_ws_vars

\* The peer closes the connection.
WsPeerClose ==
    /\ ws.pc \in {"recv", "handle"}
    /\ ws.open
    /\ ws' = [ws EXCEPT !.open = FALSE]
    /\ UNCHANGED not_ws_vars

\* Line 66: async for ends when the connection is closed and no message is
\* left.
WsLoopEnd ==
    /\ ws.pc = "recv"
    /\ ws.inbox = <<>>
    /\ ~ws.open
    /\ ws' = [ws EXCEPT !.pc = "done"]
    /\ UNCHANGED not_ws_vars

NextWebsocket ==
    \/ WsReceive
    \/ WsHandle
    \/ WsPeerClose
    \/ WsLoopEnd

SpecWebsocket == InitWebsocket /\ [][NextWebsocket]_vars

\* The event loop resumes the handler whenever a message is waiting or the
\* connection has ended; nothing obliges the peer to close.
SpecWebsocketFair ==
    /\ SpecWebsocket
    /\ WF_vars(WsReceive)
    /\ WF_vars(WsHandle)
    /\ WF_vars(WsLoopEnd)

(***************************************************************************)
(* The grouping loop of detectar_paradas (lines 166-193) step by step: the *)
(* test of the outer while, the inner while of lines 173-174 and the rest  *)
(* of the body.  The kinematic pass and the flags are those of the call.   *)
(***************************************************************************)
\* Mutant of AfterDiscard: the discard of a run leaves the cursor in place.
AfterDiscard_stay(i) == i

\* Lines 181-183: a run without valid latitude is dropped and the cursor
\* moves on.
AfterDiscard(i) == i + 1

\* An assignment of j to the cursor i.
MoveTo(g, j) ==
    [g EXCEPT !.i = j, !.seen = g.seen \cup {j}, !.twice = g.twice \/ j \in g.seen]

\* The defaults, under which an edge is flagged by its speed, and a setting
\* under which it is flagged by clause (a) only.
GroupThresholds == {Defaults, Thresholds(0, DEFAULT_MIN_STOP_MINUTES, -1)}

InitGroup ==
    /\ df \in {t \in Trajectories : Len(t) >= 2}
    /\ thr \in GroupThresholds
    /\ \E call \in {detectar_paradas(df, thr.max_jump_km, thr.min_stop_minutes,
                                     thr.speed_threshold_kmh)} :
           /\ call.exc \in {"", "ZeroDivisionError"}
           /\ deltas_min = call.deltas_min
           /\ dists_km = call.dists_km
           /\ speeds_kmh = call.speeds_kmh
           /\ low_flags = call.low_flags
    /\ grp = [pc |-> "outer", i |-> 0, n |-> Len(df) - 1, start |-> 0,
              prev |-> -1, seen |-> {0}, twice |-> FALSE, discarded |-> 0,
              stops |-> <<>>]
    /\ pc = "detectar_paradas:group"
    /\ exc = ""
    /\ stops = <<>>
    /\ pontos = <<>>
    /\ segments = <<>>
    /\ dados_ais = <<>>
    /\ navio = 0
    /\ feature_groups = <<>>
    /\ out_files = <<>>
    /\ erros = <<>>
    /\ first_run = NoRun
    /\ hav = NoMeasure
    /\ ws = NoSocket

grp_frame == <<df, thr, deltas_min, dists_km, speeds_kmh, low_flags, pontos,
               segments, fleet_vars, first_run, hav, ws>>

\* Lines 168-171: an edge that is not flagged is passed over.
GrpSkip ==
    /\ grp.pc = "outer"
    /\ grp.i < grp.n
    /\ ~low_flags[grp.i + 1]
    /\ grp' = MoveTo([grp EXCEPT !.prev = grp.i], grp.i + 1)
    /\ UNCHANGED <<pc, exc, stops, grp_frame>>

\* Lines 168-172: a flagged edge starts a run.
GrpStart ==
    /\ grp.pc = "outer"
    /\ grp.i < grp.n
    /\ low_flags[grp.i + 1]
    /\ grp' = [grp EXCEPT !.pc = "inner", !.start = grp.i, !.prev = grp.i]
    /\ UNCHANGED <<pc, exc, stops, grp_frame>>

\* Lines 173-174: the next edge is flagged too.
GrpExtend ==
    /\ grp.pc = "inner"
    /\ grp.i + 1 < grp.n /\ low_flags[grp.i + 2]
    /\ grp' = MoveTo(grp, grp.i + 1)
    /\ UNCHANGED <<pc, exc, stops, grp_frame>>

\* Lines 175-191: the run is over; it is dropped, or the centroid division
\* raises, or its stop is appended.
GrpClose ==
    /\ grp.pc = "inner"
    /\ ~(grp.i + 1 < grp.n /\ low_flags[grp.i + 2])
    /\ \E m \in {MakeStop(Column(df, "latitude"), Column(df, "longitude"),
                          Column(df, "datetime"), grp.start, grp.i)} :
           IF m.exc # ""
           THEN /\ grp' = [grp EXCEPT !.pc = "raised"]
                /\ exc' = m.exc
                /\ pc' = "raised"
                /\ UNCHANGED stops
           ELSE IF ~m.emit
           THEN /\ grp' = MoveTo([grp EXCEPT !.pc = "outer",
                                             !.discarded = grp.discarded + 1],
                                 AfterDiscard(grp.i))
                /\ UNCHANGED <<pc, exc, stops>>
           ELSE /\ grp' = MoveTo([grp EXCEPT !.pc = "outer",
                                             !.stops = Append(grp.stops, m.stop)],
                                 grp.i + 1)
                /\ UNCHANGED <<pc, exc, stops>>
    /\ UNCHANGED grp_frame

\* Lines 168 and 193: the cursor has passed the last edge, stops is
\* returned.
GrpReturn ==
    /\ grp.pc = "outer"
    /\ ~(grp.i < grp.n)
    /\ grp' = [grp EXCEPT !.pc = "done"]
    /\ stops' = grp.stops
    /\ pc' = "returned"
    /\ UNCHANGED <<exc, grp_frame>>

NextGroup ==
    \/ GrpSkip
    \/ GrpStart
    \/ GrpExtend
    \/ GrpClose
    \/ GrpReturn

SpecGroup == InitGroup /\ [][NextGroup]_vars

\* The interpreter goes on with the next statement as long as there is one.
SpecGroupFair == SpecGroup /\ WF_vars(NextGroup)

(***************************************************************************)
(* Properties of the per-vessel loops.  Vessels are numbered by their      *)
(* position in the dict, from 1.                                           *)
(***************************************************************************)
Vessels == 1..Len(dados_ais)

InRotas == pc \in {"criar_mapa_rotas:loop", "criar_mapa_rotas:saved",
                   "criar_mapa_rotas:raised", "criar_mapa_rotas:sem_dados"}
InPorNavio == pc \in {"criar_mapas_por_navio:loop",
                      "criar_mapas_por_navio:returned"}

\* The function has returned or has been left by an exception.
FleetEnded == pc \in {"criar_mapa_rotas:saved", "criar_mapa_rotas:raised",
                      "criar_mapa_rotas:sem_dados",
                      "criar_mapas_por_navio:returned"}

\* The loop has dealt with vessel k and has gone on.
Passed(k) == k < navio

\* The fixes of vessel k that have both coordinates.
Usable(k) ==
    SelectSeq(dados_ais[k], LAMBDA r : ~isna(r.latitude) /\ ~isna(r.longitude))

\* What the run holds for vessel k: its layer on the map, its page.
Layers(k) == {i \in 1..Len(feature_groups) : feature_groups[i].navio = k}
Pages(k) == {i \in 1..Len(out_files) : out_files[i].navio = k}
Errors(k) == {i \in 1..Len(erros) : erros[i].navio = k}

\* C12: a vessel with fewer than 2 usable fixes (none at all included) gets
\* no segment and no stop, raises nothing, and the loop goes on to the
\* vessels after it.
C12_FewFixesEmptyResult ==
    \A k \in Vessels :
        Len(Usable(k)) < 2 =>
            /\ \A i \in Layers(k) : /\ feature_groups[i].segments = <<>>
                                    /\ feature_groups[i].stops = <<>>
                                    /\ feature_groups[i].stops_exc = ""
            /\ \A i \in Pages(k) : out_files[i].stops = <<>>
            /\ Errors(k) = {}
            /\ pc = "criar_mapa_rotas:raised" => navio # k
            /\ FleetEnded /\ pc # "criar_mapa_rotas:raised" => Passed(k)

\* A vessel with one usable fix among rows without coordinates, then a
\* vessel with a segment and a stop, both on the map; and a vessel without
\* fixes passed by the other loop.
C12_Witness ==
    \/ /\ pc = "criar_mapa_rotas:saved"
       /\ Len(dados_ais) = 2
       /\ Len(dados_ais[1]) = 2 /\ Len(Usable(1)) = 1
       /\ Layers(1) # {}
       /\ \E i \in Layers(2) : /\ feature_groups[i].segments # <<>>
                               /\ feature_groups[i].stops # <<>>
    \/ /\ pc = "criar_mapas_por_navio:returned"
       /\ Len(dados_ais) = 2
       /\ dados_ais[1] = <<>>
       /\ \E i \in Pages(2) : out_files[i].stops # <<>>

\* Some threshold of the call is negative.
InvalidThresholds ==
    \/ thr.max_jump_km < 0
    \/ thr.min_stop_minutes < 0
    \/ thr.speed_threshold_kmh < 0

\* C13: a call of detectar_paradas with a negative threshold ends with a
\* configuration error, before any edge is computed, and gives no stops.
C13_InvalidThresholdsRejected ==
    CallEnded /\ InvalidThresholds =>
        /\ pc = "raised"
        /\ exc = "ConfigurationError"
        /\ stops = <<>>
        /\ dists_km = <<>>

\* Vessel k has a usable fix and nothing that makes its own processing
\* fail: no infinite coordinate and no stamp that is not a date.
Healthy(k) ==
    /\ Len(Usable(k)) > 0
    /\ \A i \in 1..Len(dados_ais[k]) :
          /\ dados_ais[k][i].latitude.tag # "inf"
          /\ dados_ais[k][i].longitude.tag # "inf"
          /\ dados_ais[k][i].datetime.tag # "str"

\* The run has produced the segments and stops of vessel k: its layer is on
\* the saved map, or its page is in out_files.
Produced(k) ==
    \/ pc = "criar_mapa_rotas:saved" /\ Layers(k) # {}
    \/ Pages(k) # {}

\* C14: when either loop has ended, every vessel whose own processing
\* raises nothing has its segments and stops produced, whatever happened to
\* the other vessels of the run.
C14_ErrorsStayLocal ==
    FleetEnded => \A k \in Vessels : Healthy(k) => Produced(k)

\* Stop detection raised for vessel k.
DetectRaised(k) ==
    \/ \E i \in Layers(k) : feature_groups[i].stops_exc # ""
    \/ Errors(k) # {}

\* Stop detection ran for vessel k and found no stop.
DetectFoundNone(k) ==
    \/ \E i \in Layers(k) : /\ feature_groups[i].stops_exc = ""
                            /\ feature_groups[i].stops = <<>>
    \/ \E i \in Pages(k) : out_files[i].stops = <<>>

\* What the result of the run shows of the stops of vessel k: whether the
\* vessel has a layer or a page, and the stops drawn on it.
StopOutcome(k) ==
    [shown |-> Layers(k) # {} \/ Pages(k) # {},
     stops |-> IF Layers(k) # {}
               THEN feature_groups[CHOOSE i \in Layers(k) : TRUE].stops
               ELSE IF Pages(k) # {}
               THEN out_files[CHOOSE i \in Pages(k) : TRUE].stops
               ELSE <<>>]

\* C15: a vessel whose stop detection raised and a vessel whose stop
\* detection found no stop never have the same outcome in the result.
C15_RaisedDiffersFromNone ==
    \A j, k \in Vessels :
        DetectRaised(j) /\ DetectFoundNone(k) => StopOutcome(j) # StopOutcome(k)

\* Row r has both coordinates.
HasCoordinates(r) == ~isna(r.latitude) /\ ~isna(r.longitude)

\* The rows of df are in the order sort_values('datetime') gives them:
\* known timestamps ascending, then the rows without timestamp.
TimeOrdered ==
    \A i, j \in 1..Len(df) :
        i < j =>
            /\ isna(df[i].datetime) => isna(df[j].datetime)
            /\ ~isna(df[j].datetime) => df[i].datetime.val <= df[j].datetime.val

\* The position (0-based) in df of its row number v (0-based) among the
\* rows with coordinates.
OrigPos(v) ==
    CHOOSE p \in 0..(Len(df) - 1) :
        /\ HasCoordinates(df[p+1])
        /\ Cardinality({q \in 0..(p-1) : HasCoordinates(df[q+1])}) = v

\* C16: the fix a stop of criar_mapa_rotas starts at, and the fix it ends
\* at, sit in the vessel's original sequence at the positions start_idx and
\* end_idx, also when rows without coordinates were dropped before or
\* inside the stop.
C16_IndicesIntoOriginal ==
    Drawn /\ TimeOrdered =>
        \A i \in StopIdx :
            /\ OrigPos(stops[i].start_idx) = stops[i].start_idx
            /\ OrigPos(stops[i].end_idx) = stops[i].end_idx

PartialTimes ==
    /\ \E i \in 1..Len(df) : ~isna(df[i].datetime)
    /\ \E i \in 1..Len(df) : isna(df[i].datetime)

\* The coordinates of the rows of df that have both, in the order supplied.
SuppliedPoints ==
    LET rows == SelectSeq(df, HasCoordinates)
    IN  [k \in 1..Len(rows) |-> <<rows[k].latitude, rows[k].longitude>>]

\* C18: when only some rows have a timestamp, the vessel body of
\* criar_mapa_rotas segments and searches stops over the fixes in the order
\* in which they were supplied.
C18_SuppliedOrderKept ==
    Drawn /\ PartialTimes => pontos = SuppliedPoints

\* Both coordinates of point p are finite numbers.
FinitePoint(p) == p[1].tag = "num" /\ p[2].tag = "num"

\* C19: for points a and b with finite coordinates, haversine_km(a, b)
\* equals haversine_km(b, a), and haversine_km(a, a) is 0.
C19_SymmetricAndZero ==
    hav.done /\ FinitePoint(hav.a) /\ FinitePoint(hav.b) =>
        /\ hav.ab.exc = "" /\ hav.ba.exc = "" /\ hav.aa.exc = ""
        /\ hav.ab.val.tag = "num"
        /\ hav.ab.val = hav.ba.val
        /\ hav.aa.val = Num(0)

\* Two points that differ in latitude and in longitude, a positive distance
\* apart.
C19_Witness ==
    /\ hav.done
    /\ FinitePoint(hav.a) /\ FinitePoint(hav.b)
    /\ hav.a[1] # hav.b[1]
    /\ hav.a[2] # hav.b[2]
    /\ hav.a[1] # Num(0)
    /\ hav.ab.val.val > 0

\* The fixes of df, at least 2, share one finite coordinate and have known
\* timestamps a fixed positive interval apart.
Stationary ==
    /\ NFixes >= 2
    /\ \A i \in 1..NFixes :
          /\ df[i].latitude.tag = "num" /\ df[i].longitude.tag = "num"
          /\ df[i].datetime.tag = "num"
          /\ df[i].latitude = df[1].latitude
          /\ df[i].longitude = df[1].longitude
    /\ df[2].datetime.val > df[1].datetime.val
    /\ \A i \in 1..(NFixes - 1) :
          df[i+1].datetime.val - df[i].datetime.val
              = df[2].datetime.val - df[1].datetime.val

\* C20: on such a trajectory, with thresholds that are not negative,
\* detectar_paradas returns exactly one stop, from fix 0 to fix n-1, whose
\* duration is the time from the first fix to the last.
C20_StationaryOneStop ==
    CallEnded /\ Stationary /\ ~InvalidThresholds =>
        /\ Returned
        /\ Len(stops) = 1
        /\ stops[1].start_idx = 0
        /\ stops[1].end_idx = NFixes - 1
        /\ stops[1].duration_min
              = Num(df[NFixes].datetime.val - df[1].datetime.val)

\* 3 fixes 10 minutes apart with min_stop_minutes = 5 and max_jump_km = 0.1:
\* one stop [0,2] of 20 minutes.
C20_Witness ==
    /\ Returned
    /\ Stationary
    /\ NFixes = 3
    /\ df[2].datetime = Num(10)
    /\ thr = ShortStopThresholds
    /\ Len(stops) = 1
    /\ stops[1].end_idx = 2
    /\ stops[1].duration_min = Num(20)

\* df has 2 fixes with finite coordinates and no timestamp, farther apart
\* than the segmenter's max_jump_km.
TwoFarUntimed ==
    /\ NFixes = 2
    /\ \A i \in 1..2 : /\ df[i].latitude.tag = "num"
                       /\ df[i].longitude.tag = "num"
                       /\ df[i].datetime.tag = "nat"
    /\ haversine_km(<<df[1].latitude, df[1].longitude>>,
                    <<df[2].latitude, df[2].longitude>>).val.val > SEG_MAX_JUMP_KM

\* The only stop is [0,1] and has no duration.
OneUntimedStop ==
    /\ Len(stops) = 1
    /\ stops[1].start_idx = 0
    /\ stops[1].end_idx = 1
    /\ stops[1].duration_min = PyNone

\* C21: with speed_threshold_kmh >= 0 every edge whose delta is unknown has
\* speed 0.0 and is flagged by clause (b), whatever its distance; for 2
\* fixes without time data farther apart than the segmenter's max_jump_km
\* the detector returns the one stop [0,1] with null duration while the
\* segmenter emits no segment.
C21_UnknownDeltaFlagged ==
    /\ KinematicDone /\ thr.speed_threshold_kmh >= 0 =>
          \A k \in 1..Len(low_flags) :
              deltas_min[k].tag = "none" =>
                  low_flags[k] /\ ClauseB(k) /\ speeds_kmh[k] = Num(0)
    /\ CallEnded /\ thr.speed_threshold_kmh >= 0 /\ TwoFarUntimed =>
          Returned /\ OneUntimedStop /\ ~ClauseA(1)
    /\ pc \in {"drawn", "aborted"} /\ TwoFarUntimed =>
          Drawn /\ segments = <<>> /\ OneUntimedStop

\* The vessel body on two far fixes without time data: no segment, one
\* stop.
C21_Witness ==
    /\ Drawn
    /\ TwoFarUntimed
    /\ segments = <<>>
    /\ OneUntimedStop

\* Fix i (1-based) of df has nan for both coordinates.
NaNFix(i) == df[i].latitude.tag = "nan" /\ df[i].longitude.tag = "nan"

\* df has at least 3 fixes, one of them, not the first and not the last,
\* has nan coordinates and all the others share one finite coordinate.
StationaryWithGap ==
    /\ NFixes >= 3
    /\ \E g \in 2..(NFixes - 1) :
          /\ NaNFix(g)
          /\ \A i \in (1..NFixes) \ {g} :
                /\ df[i].latitude.tag = "num" /\ df[i].longitude.tag = "num"
                /\ df[i].latitude = df[1].latitude
                /\ df[i].longitude = df[1].longitude

\* C22: on such a trajectory, whatever its timestamps, detectar_paradas
\* returns a stop over the whole run, fix 0 to fix n-1, whose centroid is
\* the coordinate of the valid fixes.
C22_GapInsideStop ==
    CallEnded /\ StationaryWithGap /\ ~InvalidThresholds =>
        /\ Returned
        /\ \E i \in StopIdx :
              /\ stops[i].start_idx = 0
              /\ stops[i].end_idx = NFixes - 1
              /\ stops[i].centroid = <<df[1].latitude, df[1].longitude>>

(***************************************************************************)
(* C23: the two copies of detectar_paradas, lines 117-193 and 247-322.     *)
(***************************************************************************)

\* The nested copy applied to the trajectory and thresholds of the call.
NestedCall ==
    nested_detectar_paradas(df, thr.max_jump_km, thr.min_stop_minutes,
                            thr.speed_threshold_kmh)

\* C23: when the module-level detectar_paradas has ended, the nested copy
\* on the same trajectory and thresholds either returns the same stop list
\* or fails as well.
C23_CopiesEquivalent ==
    CallEnded =>
        \/ exc = "" /\ NestedCall.exc = "" /\ NestedCall.stops = stops
        \/ exc # "" /\ NestedCall.exc # ""

(***************************************************************************)
(* C24: the result of a vessel against the other vessels of the run.       *)
(***************************************************************************)

\* The result of one vessel: whether its segments and stops are produced,
\* and which.
VesselResult(shown, segs, stps) ==
    [shown |-> shown,
     segments |-> IF shown THEN segs ELSE <<>>,
     stops |-> IF shown THEN stps ELSE <<>>]

RotasAlone(body) ==
    VesselResult(body.exc = "" /\ body.pontos # <<>>, body.segments, body.stops)

PorNavioAlone(body) ==
    VesselResult(body.saved, body.features, body.stops)

\* What the trajectory of vessel k gives by itself, under the thresholds of
\* the run.
ResultAlone(k) ==
    IF InRotas THEN RotasAlone(VesselBody(dados_ais[k]))
    ELSE PorNavioAlone(PorNavioBody(dados_ais[k]))

RotasInRun(k, layer) ==
    VesselResult(pc = "criar_mapa_rotas:saved" /\ Layers(k) # {},
                 feature_groups[layer].segments, feature_groups[layer].stops)

PorNavioInRun(k, page) ==
    VesselResult(Pages(k) # {}, out_files[page].features, out_files[page].stops)

\* What the ended run has produced for vessel k.
ResultInRun(k) ==
    IF InRotas
    THEN RotasInRun(k, IF Layers(k) = {} THEN 0 ELSE CHOOSE i \in Layers(k) : TRUE)
    ELSE PorNavioInRun(k, IF Pages(k) = {} THEN 0 ELSE CHOOSE i \in Pages(k) : TRUE)

\* C24: when either loop has ended, what the run has produced for each
\* vessel is what the vessel's trajectory gives by itself, whichever other
\* vessels are in the run and wherever the vessel stands among them, and at
\* no time is a vessel's result written more than once.
C24_VesselsIndependent ==
    /\ \A k \in Vessels : /\ Cardinality(Layers(k)) <= 1
                          /\ Cardinality(Pages(k)) <= 1
    /\ FleetEnded => \A k \in Vessels : ResultInRun(k) = ResultAlone(k)

\* The same, for criar_mapas_por_navio alone.
PorNavioIndependent == InPorNavio => C24_VesselsIndependent

(***************************************************************************)
(* C25: the replies of the websocket handler.                              *)
(***************************************************************************)
\* The replies sent for the k-th message handed to the loop.
RepliesTo(k) == {i \in 1..Len(ws.replies) : ws.replies[i].to = k}

\* The reply the k-th message is due: metrics for a frame that is an image,
\* an error otherwise.
DueKind(k) == IF ws.handled[k].msg = "image" THEN "metrics" ELSE "error"

\* The k-th message has exactly one reply, of the kind it is due.
AnsweredOnce(k) ==
    /\ Cardinality(RepliesTo(k)) = 1
    /\ \A i \in RepliesTo(k) :
          /\ ws.replies[i].reply.kind = DueKind(k)
          /\ (DueKind(k) = "error") = ("error" \in ws.replies[i].reply.keys)

\* Replies are sent in the order of the messages they answer.
RepliesInOrder ==
    \A i, j \in 1..Len(ws.replies) :
        i < j => ws.replies[i].to <= ws.replies[j].to

\* The loop is between two messages with none left to take.
WsAllHandled == ws.pc \in {"recv", "done"} /\ ws.inbox = <<>>

\* C25 as stated: every message the loop has handled has exactly one reply,
\* metrics or error as due, the replies are in the order of the messages,
\* and the loop ends only with no message left.
C25_EveryMessageAnswered ==
    ws.pc # "off" =>
        /\ \A k \in 1..Len(ws.handled) : AnsweredOnce(k)
        /\ RepliesInOrder
        /\ ws.pc = "done" => ws.inbox = <<>>

WsAnswered ==
    ws.pc # "off" =>
        /\ \A k \in 1..Len(ws.handled) :
              IF ws.handled[k].open THEN AnsweredOnce(k)
              ELSE RepliesTo(k) = {}
        /\ RepliesInOrder
        /\ ws.pc = "done" => ws.inbox = <<>> /\ ~ws.open

\* C25 amended: every message handled while the connection is open has
\* exactly one reply, metrics or error as due, in the order of the
\* messages; a message handled after the peer has closed has none; the loop
\* ends only when the connection is closed and no message is left; and
\* every message that has arrived is in the end handled.
C25_AnsweredWhileOpen == []WsAnswered /\ <>WsAllHandled

\* Three messages handled on an open connection: one that fails, then a
\* frame answered with metrics.
C25_Witness ==
    /\ ws.pc = "recv"
    /\ ws.open
    /\ Len(ws.handled) = 3
    /\ Len(ws.replies) = 3
    /\ \E j, k \in 1..3 :
          /\ j < k
          /\ ws.handled[j].msg \in {"not_json", "not_image"}
          /\ ws.replies[j].reply.kind = "error"
          /\ ws.replies[k].reply.kind = "metrics"

\* C26: of two consecutive stops returned by detectar_paradas the second
\* starts after the last fix of the first, and the edge that leaves the
\* last fix of the first is not flagged low-movement.
C26_StopsShareNoFix ==
    Returned =>
        \A i \in StopIdx :
            i < Len(stops) =>
                /\ stops[i+1].start_idx > stops[i].end_idx
                /\ stops[i].end_idx < NEdges
                /\ ~low_flags[stops[i].end_idx + 1]

\* Two stops with a single edge that is not flagged between them.
C26_Witness ==
    /\ Returned
    /\ Len(stops) = 2
    /\ stops[2].start_idx = stops[1].end_idx + 1
    /\ low_flags = <<TRUE, FALSE, TRUE>>

\* The stops whose span holds edge k (from fix k to fix k+1).
StopsOver(k) ==
    {i \in StopIdx : stops[i].start_idx <= k /\ k < stops[i].end_idx}

\* Every fix of the trajectory has a latitude and a longitude.
AllHaveCoordinates == \A i \in 1..NFixes : HasCoordinates(df[i])

\* C27: when every fix has a latitude and a longitude and detectar_paradas
\* returns, every flagged edge lies inside exactly one stop and every edge
\* inside a stop is flagged.
C27_StopsCoverFlaggedEdges ==
    Returned /\ AllHaveCoordinates =>
        \A k \in 0..(NEdges - 1) :
            IF low_flags[k+1] THEN Cardinality(StopsOver(k)) = 1
            ELSE StopsOver(k) = {}

\* A run of two flagged edges inside one stop, followed by an edge that is
\* not flagged.
C27_Witness ==
    /\ Returned
    /\ AllHaveCoordinates
    /\ low_flags = <<TRUE, TRUE, FALSE>>
    /\ Len(stops) = 1
    /\ StopsOver(1) = {1}

\* C28: every stop returned by detectar_paradas on a trajectory of n fixes
\* has 0 <= start_idx < end_idx <= n-1, and the call never ends with an
\* IndexError.
C28_IndicesInRange ==
    CallEnded =>
        /\ exc # "IndexError"
        /\ \A i \in StopIdx :
              /\ 0 <= stops[i].start_idx
              /\ stops[i].start_idx < stops[i].end_idx
              /\ stops[i].end_idx <= NFixes - 1

\* A stop that ends on the last fix of a trajectory of 4 fixes, and starts
\* after the first.
C28_Witness ==
    /\ Returned
    /\ NFixes = 4
    /\ \E i \in StopIdx : stops[i].start_idx > 0 /\ stops[i].end_idx = NFixes - 1

(***************************************************************************)
(* C29: the duration of a stop against the deltas of its edges.            *)
(***************************************************************************)
\* sum(deltas_min[a..b]) over edges a..b (0-based), None as soon as one of
\* the deltas is None.
RECURSIVE SumDeltas(_, _)
SumDeltas(a, b) ==
    IF a > b THEN Num(0)
    ELSE LET rest == SumDeltas(a + 1, b)
         IN  IF deltas_min[a+1].tag = "num" /\ rest.tag = "num"
             THEN Num(deltas_min[a+1].val + rest.val)
             ELSE PyNone

\* Every fix of the span of stop i has a timestamp.
SpanTimed(i) ==
    \A k \in stops[i].start_idx..stops[i].end_idx : df[k+1].datetime.tag = "num"

\* Every coordinate of the span of stop i converts to float.
SpanConverts(i) ==
    \A k \in stops[i].start_idx..(stops[i].end_idx - 1) : ~ConversionFails(k + 1)

\* The known timestamps of df are in ascending order.
SortedByTime ==
    \A i, j \in 1..NFixes :
        i < j /\ df[i].datetime.tag = "num" /\ df[j].datetime.tag = "num"
            => df[i].datetime.val <= df[j].datetime.val

DurationIsSum(i) ==
    /\ stops[i].duration_min =
           SumDeltas(stops[i].start_idx, stops[i].end_idx - 1)
    /\ SortedByTime => stops[i].duration_min.val >= 0

\* C29 as stated: a returned stop whose span has all its timestamps has a
\* duration equal to the sum of the deltas of its edges, which is >= 0 when
\* the trajectory is sorted by timestamp.
C29_DurationIsSumOfDeltas ==
    Returned => \A i \in StopIdx : SpanTimed(i) => DurationIsSum(i)

\* C29 amended: the same for a stop whose span has all its timestamps and
\* only coordinates that convert to float.
C29_DurationIsSumOfDeltasConverted ==
    Returned =>
        \A i \in StopIdx : SpanTimed(i) /\ SpanConverts(i) => DurationIsSum(i)

\* A stop of negative duration over two edges of a trajectory that is not
\* sorted, its duration the sum of a negative and a zero delta.
C29_Witness ==
    /\ Returned
    /\ ~SortedByTime
    /\ \E i \in StopIdx :
          /\ SpanTimed(i) /\ SpanConverts(i)
          /\ stops[i].end_idx - stops[i].start_idx >= 2
          /\ stops[i].duration_min.val < 0
          /\ stops[i].duration_min =
                 SumDeltas(stops[i].start_idx, stops[i].end_idx - 1)

(***************************************************************************)
(* C30: the cursor of the grouping loop.                                   *)
(***************************************************************************)
\* The loop has been left, by return or by an exception.
GrpEnded == grp.pc \in {"done", "raised"}

\* At every test of the outer while the cursor is past the edge the last
\* iteration began at, no edge has had the cursor twice, and the cursor is
\* never past n.
GrpCursorAdvances ==
    grp.pc # "off" =>
        /\ grp.pc \in {"outer", "done"} => grp.i > grp.prev
        /\ ~grp.twice
        /\ grp.i <= grp.n

\* The loop stepped through ends as the call of detectar_paradas does.
GrpAgrees ==
    GrpEnded =>
        /\ exc = detectar_paradas(df, thr.max_jump_km, thr.min_stop_minutes,
                                  thr.speed_threshold_kmh).exc
        /\ grp.pc = "done" =>
              stops = detectar_paradas(df, thr.max_jump_km, thr.min_stop_minutes,
                                       thr.speed_threshold_kmh).stops

\* C30: in the grouping loop of detectar_paradas the cursor is larger at
\* every iteration than at the one before, also after a discarded run, no
\* edge has the cursor twice, and the loop is left in the end.
C30_GroupingTerminates == []GrpCursorAdvances /\ <>GrpEnded

\* The loop has returned after it dropped a run without valid latitude and
\* appended a stop.
C30_Witness ==
    /\ grp.pc = "done"
    /\ grp.discarded >= 1
    /\ Len(grp.stops) >= 1
    /\ grp.i = grp.n


====
